---- MODULE Spec2Model ----
(***************************************************************************)
(* Model of tools/preset_editor/modules/json_manager.py (class JsonManager)*)
(* and of the way the preset editor UI calls it.                           *)
(*                                                                         *)
(* Python values are modelled as follows.                                  *)
(*   - a dict is a sequence of pairs <<key, value>> with pairwise distinct *)
(*     keys, in insertion order;                                           *)
(*   - a preset entry (the dict stored under a preset name) is a mutable   *)
(*     object: it is an address into `heap`, and heap[a] is its content;   *)
(*     two places holding the same address share the object;               *)
(*   - a document (transition_data / shader_data) is a dict from top-level *)
(*     key to a dict from name to entry address;                           *)
(*   - a file holds JSON text, i.e. a document by value (no addresses).    *)
(* After every operation the heap is garbage-collected and the addresses   *)
(* renumbered in order of first occurrence (Normalize), so that two        *)
(* states differing only by the choice of addresses are the same state.    *)
(***************************************************************************)
EXTENDS Integers, Sequences, FiniteSets, TLC

\* json_manager.py:34 is MAX_UNDO_LEVELS = 50; the model scales it down so
\* that the eviction path of push_undo is reached
MAX_UNDO_LEVELS == 2
\* number of operations explored after start-up (Spec)
MaxSteps == 3
\* operations explored beyond MAX_UNDO_LEVELS in SpecHistory
HistExtra == 3

\* most callbacks registered with on_change (SpecObservers)
MaxObservers == 2

\* contents of an entry, preset names
Vals == {0, 1}
Names == {"a", "b"}
None == 0
\* JsonManager.__init__: self._auto_save = True, never reassigned
auto_save == TRUE

VARIABLES transition_path, shader_path, transition_data, shader_data,
          undo_stack, redo_stack, heap, held, disk, writable,
          notified, lastop, ret, track, before, hist, budget,
          _on_change_callbacks, calls

vars == <<transition_path, shader_path, transition_data, shader_data,
          undo_stack, redo_stack, heap, held, disk, writable,
          notified, lastop, ret, track, before, hist, budget,
          _on_change_callbacks, calls>>

-----------------------------------------------------------------------------
(* Python dict and list primitives *)

Keys(d) == [i \in 1..Len(d) |-> d[i][1]]
KeySet(d) == {d[i][1] : i \in 1..Len(d)}
Has(d, k) == k \in KeySet(d)
\* d.get(k, default)
Get(d, k, default) ==
    IF Has(d, k) THEN d[CHOOSE i \in 1..Len(d) : d[i][1] = k][2] ELSE default
\* d[k] = v : overwrite in place, or append
Put(d, k, v) ==
    IF Has(d, k) THEN [i \in 1..Len(d) |-> IF d[i][1] = k THEN <<k, v>> ELSE d[i]]
    ELSE Append(d, <<k, v>>)
\* del d[k]
Del(d, k) == SelectSeq(d, LAMBDA p : p[1] # k)

InList(x, l) == \E i \in 1..Len(l) : l[i] = x
\* l.index(x)
IndexOf(l, x) == CHOOSE i \in 1..Len(l) : l[i] = x /\ \A j \in 1..(i-1) : l[j] # x
\* l.remove(x) : removes the first occurrence
Remove(l, x) ==
    LET i == IndexOf(l, x) IN SubSeq(l, 1, i-1) \o SubSeq(l, i+1, Len(l))
Swap(l, i, j) ==
    [n \in 1..Len(l) |-> IF n = i THEN l[j] ELSE IF n = j THEN l[i] ELSE l[n]]

\* `LET x == v IN F(x)` with v evaluated once
Then(v, F(_)) == CHOOSE r \in {F(x) : x \in {v}} : TRUE

RECURSIVE Flatten(_)
Flatten(ss) == IF ss = <<>> THEN <<>> ELSE Head(ss) \o Flatten(Tail(ss))

\* the elements of s in order of first occurrence
Uniq(l) ==
    Then(l, LAMBDA s :
    Then(SelectSeq([i \in 1..Len(s) |-> i],
                   LAMBDA i : \A j \in 1..(i-1) : s[j] # s[i]), LAMBDA keep :
        [k \in 1..Len(keep) |-> s[keep[k]]]))

\* str.startswith("_") on the key strings the model uses
StartsWithUnderscore(k) == k \in {"_meta", "_note"}

-----------------------------------------------------------------------------
(* Documents, objects and copies *)

MapDoc(doc, F(_)) ==
    [i \in 1..Len(doc) |->
        <<doc[i][1],
          [j \in 1..Len(doc[i][2]) |-> <<doc[i][2][j][1], F(doc[i][2][j][2])>>]>>]

DocAddrs(doc) ==
    Flatten([i \in 1..Len(doc) |->
                [j \in 1..Len(doc[i][2]) |-> doc[i][2][j][2]]])

\* the document by value: what json.dump writes and what == compares
Serialize(doc, h) == MapDoc(doc, LAMBDA a : h[a])

\* json.load: every entry of the text becomes a fresh object
Deserialize(vdoc, h) ==
    LET off[i \in 0..Len(vdoc)] ==
            IF i = 0 THEN 0 ELSE off[i-1] + Len(vdoc[i][2])
        contents == Flatten([i \in 1..Len(vdoc) |->
                        [j \in 1..Len(vdoc[i][2]) |-> vdoc[i][2][j][2]]])
    IN [doc |-> [i \in 1..Len(vdoc) |->
                    <<vdoc[i][1],
                      [j \in 1..Len(vdoc[i][2]) |->
                          <<vdoc[i][2][j][1], Len(h) + off[i-1] + j>>]>>],
        heap |-> h \o contents]

\* copy.deepcopy(doc): fresh objects, sharing inside doc is preserved (memo)
deepcopy(doc, h) ==
    Then(Uniq(DocAddrs(doc)), LAMBDA u :
        [doc |-> MapDoc(doc, LAMBDA a : Len(h) + IndexOf(u, a)),
         heap |-> h \o [i \in 1..Len(u) |-> h[u[i]]]])

\* copy.deepcopy of one entry
deepcopy_entry(a, h) == [addr |-> Len(h) + 1, heap |-> Append(h, h[a])]

SnapAddrs(u) == DocAddrs(u.transition_data) \o DocAddrs(u.shader_data)
StackAddrs(st) == Flatten([i \in 1..Len(st) |-> SnapAddrs(st[i])])
MapStack(st, F(_)) ==
    [i \in 1..Len(st) |->
        [transition_data |-> MapDoc(st[i].transition_data, F),
         shader_data |-> MapDoc(st[i].shader_data, F)]]

\* a snapshot by value
SnapView(u, h) ==
    [transition_data |-> Serialize(u.transition_data, h),
     shader_data |-> Serialize(u.shader_data, h)]
StackView(st, h) == [i \in 1..Len(st) |-> SnapView(st[i], h)]

-----------------------------------------------------------------------------
(* The store: one record holding the JsonManager fields, the files and the *)
(* caller's reference; the operations are functions from store to store.   *)

TFile == "transition_presets.json"
SFile == "shader_presets.json"
Files == {TFile, SFile}

MissingFile == [kind |-> "missing", doc |-> <<>>]
MalformedFile == [kind |-> "malformed", doc |-> <<>>]
\* a file that exists and cannot be opened for reading
UnreadableFile == [kind |-> "unreadable", doc |-> <<>>]
JsonFile(vdoc) == [kind |-> "json", doc |-> vdoc]

\* the UndoState dataclass (the description string is never read back)
UndoState(td, sd) == [transition_data |-> td, shader_data |-> sd]

\* JsonManager.__init__ with the environment (files, caller reference)
Construct(dsk, w) ==
    [transition_path |-> "", shader_path |-> "",
     transition_data |-> <<>>, shader_data |-> <<>>,
     undo_stack |-> <<>>, redo_stack |-> <<>>,
     heap |-> <<>>, held |-> None, disk |-> dsk, writable |-> w,
     notified |-> 0, ret |-> "None",
     _on_change_callbacks |-> <<>>, calls |-> <<>>]

set_paths(s, tp, sp) == [s EXCEPT !.transition_path = tp, !.shader_path = sp]

\* on_change: a callback is modelled by what a call of it does, "returns"
\* or "raises" (an Exception)
on_change(s, callback) ==
    [s EXCEPT !._on_change_callbacks = Append(@, callback)]

\* _notify_change without try/except: the first callback that raises ends
\* the pass
notify_unprotected(s) ==
    Then(s._on_change_callbacks, LAMBDA cbs :
    Then(IF \E i \in 1..Len(cbs) : cbs[i] = "raises"
         THEN CHOOSE i \in 1..Len(cbs) :
                 cbs[i] = "raises" /\ \A j \in 1..(i-1) : cbs[j] # "raises"
         ELSE Len(cbs), LAMBDA n :
        [s EXCEPT !.notified = @ + 1,
                  !.calls = @ \o [i \in 1..n |->
                      [observer |-> i, raised |-> cbs[i] = "raises",
                       seen |-> [s EXCEPT !.calls = <<>>]]]]))

\* _notify_change: one pass over the registered callbacks, each called inside
\* try/except Exception; `calls` logs each call with the store as the
\* callback finds it, `notified` counts the passes
_notify_change(s) ==
    Then(s._on_change_callbacks, LAMBDA cbs :
        [s EXCEPT !.notified = @ + 1,
                  !.calls = @ \o [i \in 1..Len(cbs) |->
                      [observer |-> i, raised |-> cbs[i] = "raises",
                       seen |-> [s EXCEPT !.calls = <<>>]]]])

\* _load_json: the parsed document, {} when the file is missing or malformed
_load_json(s, filepath) ==
    IF s.disk[filepath].kind = "json"
    THEN Deserialize(s.disk[filepath].doc, s.heap)
    ELSE [doc |-> <<>>, heap |-> s.heap]

\* load() up to `if self.shader_path:`; ret carries `success`
load_transitions(s) ==
    IF s.transition_path # ""
    THEN Then(_load_json(s, s.transition_path), LAMBDA t :
            [s EXCEPT !.transition_data = t.doc, !.heap = t.heap,
                      !.ret = IF t.doc = <<>> THEN "False" ELSE "True"])
    ELSE [s EXCEPT !.ret = "True"]

load_shaders(s) ==
    IF s.shader_path # ""
    THEN Then(_load_json(s, s.shader_path), LAMBDA t :
            [s EXCEPT !.shader_data = t.doc, !.heap = t.heap,
                      !.ret = IF t.doc = <<>> THEN "False" ELSE @])
    ELSE s

\* load without self.redo_stack.clear()
load_keeps_redo(s) ==
    Then(load_transitions(s), LAMBDA s1 :
    Then(load_shaders(s1), LAMBDA s2 :
        _notify_change([s2 EXCEPT !.undo_stack = <<>>])))

\* load that returns as soon as one file failed
load_stops_at_failure(s) ==
    Then(load_transitions(s), LAMBDA s1 :
        IF s1.ret = "False"
        THEN _notify_change([s1 EXCEPT !.undo_stack = <<>>, !.redo_stack = <<>>])
        ELSE Then(load_shaders(s1), LAMBDA s2 :
                _notify_change([s2 EXCEPT !.undo_stack = <<>>,
                                          !.redo_stack = <<>>])))

load(s) ==
    Then(load_transitions(s), LAMBDA s1 :
    Then(load_shaders(s1), LAMBDA s2 :
        _notify_change([s2 EXCEPT !.undo_stack = <<>>, !.redo_stack = <<>>])))

\* _save_json: open(filepath, 'w') fails on a file that cannot be written
_save_json(s, filepath, data) ==
    IF s.writable[filepath]
    THEN [s EXCEPT !.disk[filepath] = JsonFile(Serialize(data, s.heap)),
                   !.ret = "True"]
    ELSE [s EXCEPT !.ret = "False"]

\* save() up to `if self.shader_path ...`; ret carries `success`
save_transitions(s) ==
    IF s.transition_path # "" /\ s.transition_data # <<>>
    THEN _save_json(s, s.transition_path, s.transition_data)
    ELSE [s EXCEPT !.ret = "True"]

\* save that returns False at the first failed write
save_stops_at_failure(s) ==
    Then(save_transitions(s), LAMBDA s1 :
        IF s1.ret = "False" THEN s1
        ELSE IF s1.shader_path # "" /\ s1.shader_data # <<>>
        THEN _save_json(s1, s1.shader_path, s1.shader_data)
        ELSE s1)

save(s) ==
    Then(save_transitions(s), LAMBDA s1 :
        IF s1.shader_path # "" /\ s1.shader_data # <<>>
        THEN Then(_save_json(s1, s1.shader_path, s1.shader_data), LAMBDA s2 :
                [s2 EXCEPT !.ret = IF s1.ret = "True" /\ s2.ret = "True"
                                   THEN "True" ELSE "False"])
        ELSE s1)

\* a tail that, when save() fails, puts the snapshot on top of the undo stack
\* back in place and returns without notifying
autosave_rolls_back(s) ==
    Then(IF auto_save THEN save(s) ELSE s, LAMBDA s1 :
        IF s1.ret = "False" /\ s.undo_stack # <<>>
        THEN [s EXCEPT !.transition_data = s.undo_stack[Len(s.undo_stack)].transition_data,
                       !.shader_data = s.undo_stack[Len(s.undo_stack)].shader_data,
                       !.undo_stack = SubSeq(@, 1, Len(@) - 1)]
        ELSE [_notify_change(s1) EXCEPT !.ret = s.ret])

\* a tail that notifies the callbacks before it saves
notify_then_autosave(s) ==
    Then(_notify_change(s), LAMBDA s1 :
        [(IF auto_save THEN save(s1) ELSE s1) EXCEPT !.ret = s.ret])

\* the tail every mutating method ends with; the result of save() is dropped
autosave_notify(s) ==
    Then(IF auto_save THEN save(s) ELSE s, LAMBDA s1 :
        [_notify_change(s1) EXCEPT !.ret = s.ret])

\* UndoState(transition_data, shader_data) without copy.deepcopy
capture_by_reference(s) ==
    [state |-> UndoState(s.transition_data, s.shader_data), heap |-> s.heap]

\* UndoState(deepcopy(transition_data), deepcopy(shader_data))
Capture(s) ==
    Then(deepcopy(s.transition_data, s.heap), LAMBDA c1 :
    Then(deepcopy(s.shader_data, c1.heap), LAMBDA c2 :
        [state |-> UndoState(c1.doc, c2.doc), heap |-> c2.heap]))

\* push_undo without `if len(self.undo_stack) > MAX_UNDO_LEVELS: pop(0)`
push_undo_unbounded(s) ==
    Then(Capture(s), LAMBDA c :
        [s EXCEPT !.heap = c.heap,
                  !.undo_stack = Append(@, c.state),
                  !.redo_stack = <<>>])

\* push_undo with pop() for pop(0): the newest snapshot is dropped
push_undo_evicts_newest(s) ==
    Then(Capture(s), LAMBDA c :
    Then(Append(s.undo_stack, c.state), LAMBDA st :
        [s EXCEPT !.heap = c.heap,
                  !.undo_stack = IF Len(st) > MAX_UNDO_LEVELS
                                 THEN SubSeq(st, 1, Len(st) - 1) ELSE st,
                  !.redo_stack = <<>>]))

\* push_undo without self.redo_stack.clear()
push_undo_keeps_redo(s) ==
    Then(Capture(s), LAMBDA c :
    Then(Append(s.undo_stack, c.state), LAMBDA st :
        [s EXCEPT !.heap = c.heap,
                  !.undo_stack = IF Len(st) > MAX_UNDO_LEVELS THEN Tail(st) ELSE st]))

push_undo(s) ==
    Then(Capture(s), LAMBDA c :
    Then(Append(s.undo_stack, c.state), LAMBDA st :
        [s EXCEPT !.heap = c.heap,
                  !.undo_stack = IF Len(st) > MAX_UNDO_LEVELS THEN Tail(st) ELSE st,
                  !.redo_stack = <<>>]))

\* undo that restores transition_data only
undo_transitions_only(s) ==
    IF s.undo_stack = <<>> THEN [s EXCEPT !.ret = "False"]
    ELSE Then(Capture(s), LAMBDA c :
         Then(s.undo_stack[Len(s.undo_stack)], LAMBDA prev :
         Then([s EXCEPT !.heap = c.heap,
                        !.redo_stack = Append(@, c.state),
                        !.undo_stack = SubSeq(@, 1, Len(@) - 1),
                        !.transition_data = prev.transition_data], LAMBDA s1 :
            [autosave_notify(s1) EXCEPT !.ret = "True"])))

\* undo that notifies the observers before `return False`
undo_notifies_on_failure(s) ==
    IF s.undo_stack = <<>> THEN [_notify_change(s) EXCEPT !.ret = "False"]
    ELSE Then(Capture(s), LAMBDA c :
         Then(s.undo_stack[Len(s.undo_stack)], LAMBDA prev :
         Then([s EXCEPT !.heap = c.heap,
                        !.redo_stack = Append(@, c.state),
                        !.undo_stack = SubSeq(@, 1, Len(@) - 1),
                        !.transition_data = prev.transition_data,
                        !.shader_data = prev.shader_data], LAMBDA s1 :
            [autosave_notify(s1) EXCEPT !.ret = "True"])))

\* undo without self.redo_stack.append(current)
undo_without_redo_entry(s) ==
    IF s.undo_stack = <<>> THEN [s EXCEPT !.ret = "False"]
    ELSE Then(s.undo_stack[Len(s.undo_stack)], LAMBDA prev :
         Then([s EXCEPT !.undo_stack = SubSeq(@, 1, Len(@) - 1),
                        !.transition_data = prev.transition_data,
                        !.shader_data = prev.shader_data], LAMBDA s1 :
            [autosave_notify(s1) EXCEPT !.ret = "True"]))

undo(s) ==
    IF s.undo_stack = <<>> THEN [s EXCEPT !.ret = "False"]
    ELSE Then(Capture(s), LAMBDA c :
         Then(s.undo_stack[Len(s.undo_stack)], LAMBDA prev :
         Then([s EXCEPT !.heap = c.heap,
                        !.redo_stack = Append(@, c.state),
                        !.undo_stack = SubSeq(@, 1, Len(@) - 1),
                        !.transition_data = prev.transition_data,
                        !.shader_data = prev.shader_data], LAMBDA s1 :
            [autosave_notify(s1) EXCEPT !.ret = "True"])))

\* redo that saves the current state with push_undo(), which clears what
\* is left of the redo stack
redo_via_push_undo(s) ==
    IF s.redo_stack = <<>> THEN [s EXCEPT !.ret = "False"]
    ELSE Then(s.redo_stack[Len(s.redo_stack)], LAMBDA next_state :
         Then(push_undo(s), LAMBDA s0 :
         Then([s0 EXCEPT !.transition_data = next_state.transition_data,
                         !.shader_data = next_state.shader_data], LAMBDA s1 :
            [autosave_notify(s1) EXCEPT !.ret = "True"])))

\* redo with redo_stack[-1] for redo_stack.pop(): the deep copy of the
\* snapshot is installed and the snapshot stays on the redo stack
redo_keeps_snapshot(s) ==
    IF s.redo_stack = <<>> THEN [s EXCEPT !.ret = "False"]
    ELSE Then(Capture(s), LAMBDA c :
         Then(Capture([s EXCEPT
                  !.heap = c.heap,
                  !.transition_data = s.redo_stack[Len(s.redo_stack)].transition_data,
                  !.shader_data = s.redo_stack[Len(s.redo_stack)].shader_data]),
              LAMBDA n :
         Then([s EXCEPT !.heap = n.heap,
                        !.undo_stack = Append(@, c.state),
                        !.transition_data = n.state.transition_data,
                        !.shader_data = n.state.shader_data], LAMBDA s1 :
            [autosave_notify(s1) EXCEPT !.ret = "True"])))

redo(s) ==
    IF s.redo_stack = <<>> THEN [s EXCEPT !.ret = "False"]
    ELSE Then(Capture(s), LAMBDA c :
         Then(s.redo_stack[Len(s.redo_stack)], LAMBDA next_state :
         Then([s EXCEPT !.heap = c.heap,
                        !.undo_stack = Append(@, c.state),
                        !.redo_stack = SubSeq(@, 1, Len(@) - 1),
                        !.transition_data = next_state.transition_data,
                        !.shader_data = next_state.shader_data], LAMBDA s1 :
            [autosave_notify(s1) EXCEPT !.ret = "True"])))

can_undo(s) == Len(s.undo_stack) > 0
can_redo(s) == Len(s.redo_stack) > 0
undo_count(s) == Len(s.undo_stack)
redo_count(s) == Len(s.redo_stack)

-----------------------------------------------------------------------------
(* Per-collection methods.  The transition and the shader methods are the  *)
(* same code over (transition_data, "presets") and (shader_data,           *)
(* "shader_presets"); `f` is the field and `key` the top-level key.        *)

\* get_*_names without `not k.startswith("_")`
get_names_with_comments(s, f, key) ==
    LET presets == Get(s[f], key, <<>>)
    IN IF presets = <<>> THEN <<>>
       ELSE SelectSeq(Keys(presets), LAMBDA k : k # "")

\* get_*_names: the keys that are non-empty and do not start with "_"
get_names(s, f, key) ==
    LET presets == Get(s[f], key, <<>>)
    IN IF presets = <<>> THEN <<>>
       ELSE SelectSeq(Keys(presets),
                      LAMBDA k : k # "" /\ ~StartsWithUnderscore(k))

\* get_*: the stored object itself (no copy), or None
get_preset(s, f, key, name) == Get(Get(s[f], key, <<>>), name, None)

\* data = {key: {**data.get(key, {}), name: value}}: the other top-level
\* keys are dropped
store_entry_resets_document(s, f, key, name, data) ==
    [s EXCEPT ![f] = << <<key, Put(Get(s[f], key, <<>>), name, data)>> >>]

\* if key not in data: data[key] = {}; data[key][name] = value
store_entry(s, f, key, name, data) ==
    Then(IF ~Has(s[f], key) THEN Put(s[f], key, <<>>) ELSE s[f], LAMBDA d1 :
        [s EXCEPT ![f] = Put(d1, key, Put(Get(d1, key, <<>>), name, data))])

\* set_* that ignores its push_undo argument
set_preset_always_pushes(s, f, key, name, data, pushundo) ==
    Then(push_undo(s), LAMBDA s1 :
    Then(store_entry(s1, f, key, name, data), LAMBDA s2 :
        autosave_notify(s2)))

set_preset(s, f, key, name, data, pushundo) ==
    Then(IF pushundo THEN push_undo(s) ELSE s, LAMBDA s1 :
    Then(store_entry(s1, f, key, name, data), LAMBDA s2 :
        autosave_notify(s2)))

\* add_* that removes an existing entry of that name first
add_preset_reinserts(s, f, key, name, data) ==
    Then(push_undo(s), LAMBDA s1 :
    Then(IF Has(Get(s1[f], key, <<>>), name)
         THEN [s1 EXCEPT ![f] = Put(@, key, Del(Get(@, key, <<>>), name))]
         ELSE s1, LAMBDA s2 :
    Then(store_entry(s2, f, key, name, data), LAMBDA s3 :
        autosave_notify(s3))))

add_preset(s, f, key, name, data) ==
    Then(push_undo(s), LAMBDA s1 :
    Then(store_entry(s1, f, key, name, data), LAMBDA s2 :
        autosave_notify(s2)))

\* del data[key][name]
remove_entry(s, f, key, name) ==
    [s EXCEPT ![f] = Put(@, key, Del(Get(@, key, <<>>), name))]

\* delete_* with _notify_change() outside the `if`
delete_preset_notifies_absent(s, f, key, name) ==
    IF Has(Get(s[f], key, <<>>), name)
    THEN Then(push_undo(s), LAMBDA s1 :
         Then(remove_entry(s1, f, key, name), LAMBDA s2 :
            autosave_notify(s2)))
    ELSE _notify_change(s)

delete_preset(s, f, key, name) ==
    IF Has(Get(s[f], key, <<>>), name)
    THEN Then(push_undo(s), LAMBDA s1 :
         Then(remove_entry(s1, f, key, name), LAMBDA s2 :
            autosave_notify(s2)))
    ELSE s

\* the loop of delete_*s over `names`
RECURSIVE delete_each(_, _, _, _)
delete_each(s, f, key, names) ==
    IF names = <<>> THEN s
    ELSE Then(IF Has(Get(s[f], key, <<>>), Head(names))
              THEN remove_entry(s, f, key, Head(names))
              ELSE s, LAMBDA s1 :
            delete_each(s1, f, key, Tail(names)))

\* delete_*s as a loop of delete_* calls: one snapshot per name
RECURSIVE delete_presets_one_by_one(_, _, _, _)
delete_presets_one_by_one(s, f, key, names) ==
    IF names = <<>> THEN s
    ELSE Then(delete_preset(s, f, key, Head(names)), LAMBDA s1 :
            delete_presets_one_by_one(s1, f, key, Tail(names)))

delete_presets(s, f, key, names) ==
    IF names = <<>> THEN s
    ELSE Then(push_undo(s), LAMBDA s1 :
         Then(delete_each(s1, f, key, names), LAMBDA s2 :
            autosave_notify(s2)))

\* presets[new_name] = presets.pop(old_name); `presets` is the stored dict
\* when the key exists, otherwise a temporary {} (and the guard fails)
\* rename without the `new_name in presets` test
rename_preset_overwrites(s, f, key, old_name, new_name) ==
    Then(Get(s[f], key, <<>>), LAMBDA presets :
        IF ~Has(presets, old_name)
        THEN [s EXCEPT !.ret = "False"]
        ELSE Then(push_undo(s), LAMBDA s1 :
             Then(Put(Del(presets, old_name), new_name,
                      Get(presets, old_name, None)), LAMBDA p1 :
             Then([s1 EXCEPT ![f] = Put(@, key, p1)], LAMBDA s2 :
                [autosave_notify(s2) EXCEPT !.ret = "True"]))))

\* rename that puts new_name in the place of old_name
rename_preset_in_place(s, f, key, old_name, new_name) ==
    Then(Get(s[f], key, <<>>), LAMBDA presets :
        IF ~Has(presets, old_name) \/ Has(presets, new_name)
        THEN [s EXCEPT !.ret = "False"]
        ELSE Then(push_undo(s), LAMBDA s1 :
             Then([i \in 1..Len(presets) |->
                     IF presets[i][1] = old_name
                     THEN <<new_name, presets[i][2]>> ELSE presets[i]],
                  LAMBDA p1 :
             Then([s1 EXCEPT ![f] = Put(@, key, p1)], LAMBDA s2 :
                [autosave_notify(s2) EXCEPT !.ret = "True"]))))

rename_preset(s, f, key, old_name, new_name) ==
    Then(Get(s[f], key, <<>>), LAMBDA presets :
        IF ~Has(presets, old_name) \/ Has(presets, new_name)
        THEN [s EXCEPT !.ret = "False"]
        ELSE Then(push_undo(s), LAMBDA s1 :
             Then(Put(Del(presets, old_name), new_name,
                      Get(presets, old_name, None)), LAMBDA p1 :
             Then([s1 EXCEPT ![f] = Put(@, key, p1)], LAMBDA s2 :
                [autosave_notify(s2) EXCEPT !.ret = "True"]))))

\* duplicate without copy.deepcopy: both names hold the same object
duplicate_preset_shared(s, f, key, name, new_name) ==
    Then(Get(s[f], key, <<>>), LAMBDA presets :
        IF ~Has(presets, name)
        THEN [s EXCEPT !.ret = "False"]
        ELSE Then(push_undo(s), LAMBDA s1 :
             Then([s1 EXCEPT ![f] = Put(@, key, Put(presets, new_name,
                                                   Get(presets, name, None)))],
                  LAMBDA s2 :
                [autosave_notify(s2) EXCEPT !.ret = "True"])))

duplicate_preset(s, f, key, name, new_name) ==
    Then(Get(s[f], key, <<>>), LAMBDA presets :
        IF ~Has(presets, name)
        THEN [s EXCEPT !.ret = "False"]
        ELSE Then(push_undo(s), LAMBDA s1 :
             Then(deepcopy_entry(Get(presets, name, None), s1.heap), LAMBDA c :
             Then([s1 EXCEPT !.heap = c.heap,
                             ![f] = Put(@, key, Put(presets, new_name, c.addr))],
                  LAMBDA s2 :
                [autosave_notify(s2) EXCEPT !.ret = "True"]))))

\* _reorder_*: comment keys first, then new_order; stores a new dict
\* _reorder_* that adds the comment keys after the presets
reorder_comments_last(s, f, key, new_order) ==
    Then(Get(s[f], key, <<>>), LAMBDA old_presets :
    Then(SelectSeq(old_presets, LAMBDA p : StartsWithUnderscore(p[1])),
         LAMBDA comments :
    Then(SelectSeq(new_order, LAMBDA n : Has(old_presets, n)), LAMBDA named :
        [s EXCEPT ![f] = Put(@, key,
            [i \in 1..Len(named) |->
                <<named[i], Get(old_presets, named[i], None)>>] \o comments)])))

reorder(s, f, key, new_order) ==
    Then(Get(s[f], key, <<>>), LAMBDA old_presets :
    Then(SelectSeq(old_presets, LAMBDA p : StartsWithUnderscore(p[1])),
         LAMBDA comments :
    Then(SelectSeq(new_order, LAMBDA n : Has(old_presets, n)), LAMBDA named :
        [s EXCEPT ![f] = Put(@, key, comments \o
            [i \in 1..Len(named) |->
                <<named[i], Get(old_presets, named[i], None)>>])])))

\* the if/elif chain of move_*: the new order, or <<>> for `return False`
moved_names(names, name, direction) ==
    LET idx == IndexOf(names, name)
    IN IF direction = "top" /\ idx > 1 THEN <<name>> \o Remove(names, name)
       ELSE IF direction = "up" /\ idx > 1 THEN Swap(names, idx, idx - 1)
       ELSE IF direction = "down" /\ idx < Len(names) THEN Swap(names, idx, idx + 1)
       ELSE IF direction = "bottom" /\ idx < Len(names)
            THEN Append(Remove(names, name), name)
       ELSE <<>>

\* move_* with push_undo() ahead of the if/elif chain
move_preset_pushes_first(s, f, key, name, direction) ==
    Then(get_names(s, f, key), LAMBDA names :
        IF ~InList(name, names) THEN [s EXCEPT !.ret = "False"]
        ELSE Then(push_undo(s), LAMBDA s1 :
             Then(moved_names(names, name, direction), LAMBDA new_order :
                IF new_order = <<>> THEN [s1 EXCEPT !.ret = "False"]
                ELSE Then(reorder(s1, f, key, new_order), LAMBDA s2 :
                    [autosave_notify(s2) EXCEPT !.ret = "True"]))))

move_preset(s, f, key, name, direction) ==
    Then(get_names(s, f, key), LAMBDA names :
        IF ~InList(name, names) THEN [s EXCEPT !.ret = "False"]
        ELSE Then(moved_names(names, name, direction), LAMBDA new_order :
            IF new_order = <<>> THEN [s EXCEPT !.ret = "False"]
            ELSE Then(push_undo(s), LAMBDA s1 :
                 Then(reorder(s1, f, key, new_order), LAMBDA s2 :
                    [autosave_notify(s2) EXCEPT !.ret = "True"]))))

\* f"{base}_{counter}"
Suffixed(base, counter) == base \o "_" \o ToString(counter)

\* the while loop of get_unique_*_name
RECURSIVE unique_loop(_, _, _, _)
unique_loop(existing, base, name, counter) ==
    IF InList(name, existing)
    THEN unique_loop(existing, base, Suffixed(base, counter), counter + 1)
    ELSE name

\* get_unique_*_name with `existing` holding every key of the collection
get_unique_name_all_keys(s, f, key, base) ==
    unique_loop(Keys(Get(s[f], key, <<>>)), base, base, 1)

get_unique_name(s, f, key, base) ==
    unique_loop(get_names(s, f, key), base, base, 1)

\* the two instances
Coll == [transition |-> [f |-> "transition_data", key |-> "presets"],
         shader |-> [f |-> "shader_data", key |-> "shader_presets"]]

get_transition_names(s) == get_names(s, "transition_data", "presets")
get_shader_names(s) == get_names(s, "shader_data", "shader_presets")
get_transition(s, name) == get_preset(s, "transition_data", "presets", name)
get_shader(s, name) == get_preset(s, "shader_data", "shader_presets", name)

get_unique_transition_name(s, base) ==
    get_unique_name(s, "transition_data", "presets", base)
get_unique_shader_name(s, base) ==
    get_unique_name(s, "shader_data", "shader_presets", base)

set_transition(s, name, data, pushundo) ==
    set_preset(s, "transition_data", "presets", name, data, pushundo)
add_transition(s, name, data) ==
    add_preset(s, "transition_data", "presets", name, data)
delete_transition(s, name) ==
    delete_preset(s, "transition_data", "presets", name)
delete_transitions(s, names) ==
    delete_presets(s, "transition_data", "presets", names)
rename_transition(s, old_name, new_name) ==
    rename_preset(s, "transition_data", "presets", old_name, new_name)
duplicate_transition(s, name, new_name) ==
    duplicate_preset(s, "transition_data", "presets", name, new_name)
move_transition(s, name, direction) ==
    move_preset(s, "transition_data", "presets", name, direction)

\* set_shader pasted from set_transition with the field left unchanged
set_shader_pasted(s, name, data, pushundo) ==
    set_preset(s, "transition_data", "presets", name, data, pushundo)

set_shader(s, name, data, pushundo) ==
    set_preset(s, "shader_data", "shader_presets", name, data, pushundo)
add_shader(s, name, data) ==
    add_preset(s, "shader_data", "shader_presets", name, data)
delete_shader(s, name) ==
    delete_preset(s, "shader_data", "shader_presets", name)
delete_shaders(s, names) ==
    delete_presets(s, "shader_data", "shader_presets", names)
rename_shader(s, old_name, new_name) ==
    rename_preset(s, "shader_data", "shader_presets", old_name, new_name)
duplicate_shader(s, name, new_name) ==
    duplicate_preset(s, "shader_data", "shader_presets", name, new_name)
move_shader(s, name, direction) ==
    move_preset(s, "shader_data", "shader_presets", name, direction)

-----------------------------------------------------------------------------
(* State, normalisation and history *)

\* the store as the variables hold it, before an operation
Store ==
    [transition_path |-> transition_path, shader_path |-> shader_path,
     transition_data |-> transition_data, shader_data |-> shader_data,
     undo_stack |-> undo_stack, redo_stack |-> redo_stack,
     heap |-> heap, held |-> held, disk |-> disk, writable |-> writable,
     notified |-> 0, ret |-> "None",
     _on_change_callbacks |-> _on_change_callbacks, calls |-> <<>>]

\* garbage collection and renumbering of the addresses
Normalize(s) ==
    Then(Uniq(DocAddrs(s.transition_data) \o DocAddrs(s.shader_data)
              \o StackAddrs(s.undo_stack) \o StackAddrs(s.redo_stack)
              \o (IF s.held = None THEN <<>> ELSE <<s.held>>)), LAMBDA order :
        [s EXCEPT !.transition_data = MapDoc(@, LAMBDA a : IndexOf(order, a)),
                  !.shader_data = MapDoc(@, LAMBDA a : IndexOf(order, a)),
                  !.undo_stack = MapStack(@, LAMBDA a : IndexOf(order, a)),
                  !.redo_stack = MapStack(@, LAMBDA a : IndexOf(order, a)),
                  !.held = IF @ = None THEN None ELSE IndexOf(order, @),
                  !.heap = [i \in 1..Len(order) |-> s.heap[order[i]]]])

\* both collections by value
StoreView(s) ==
    [transition_data |-> Serialize(s.transition_data, s.heap),
     shader_data |-> Serialize(s.shader_data, s.heap)]

TransitionEdits == {"set_transition", "add_transition", "delete_transition",
                    "delete_transitions", "rename_transition",
                    "duplicate_transition", "move_transition"}
ShaderEdits == {"set_shader", "add_shader", "delete_shader", "delete_shaders",
                "rename_shader", "duplicate_shader", "move_shader"}
Edits == TransitionEdits \cup ShaderEdits

NoTrack == [phase |-> "none", op |-> "", pre |-> StoreView(Construct(<<>>, <<>>)),
            post |-> StoreView(Construct(<<>>, <<>>))]

\* history: the last edit that ran, and whether undo() and then redo()
\* followed it immediately
NextTrack(op, s) ==
    IF op \in Edits /\ s.notified > 0
    THEN [phase |-> "op", op |-> op, pre |-> StoreView(Store), post |-> StoreView(s)]
    ELSE IF op = "undo" /\ s.ret = "True" /\ track.phase = "op"
    THEN [track EXCEPT !.phase = "undone"]
    ELSE IF op = "redo" /\ s.ret = "True" /\ track.phase = "undone"
    THEN [track EXCEPT !.phase = "redone"]
    ELSE NoTrack

\* history: the stack sizes before the last operation and, for load(),
\* save() and get_unique_*_name(), the collections and the files before it
Before(op) ==
    IF op \in {"load", "save", "get_unique_transition_name",
                "get_unique_shader_name"}
    THEN [undo_count |-> Len(undo_stack), redo_count |-> Len(redo_stack),
          view |-> StoreView(Store), disk |-> disk]
    ELSE [undo_count |-> Len(undo_stack), redo_count |-> Len(redo_stack)]

\* history since the last load(): the states before each edit that ran, for as
\* long as the run is edits followed by undo() calls only (pure)
FreshHist == [pres |-> <<>>, undone |-> 0, pure |-> TRUE]
Broken == [pres |-> <<>>, undone |-> 0, pure |-> FALSE]
NextHist(op, s) ==
    IF op = "load" THEN FreshHist
    ELSE IF op \in Edits /\ s.notified > 0
    THEN IF hist.pure /\ hist.undone = 0
         THEN [hist EXCEPT !.pres = Append(@, StoreView(Store))]
         ELSE Broken
    ELSE IF op = "undo" /\ s.ret = "True"
    THEN IF hist.pure THEN [hist EXCEPT !.undone = @ + 1] ELSE Broken
    ELSE IF op = "mutate" \/ (op = "redo" /\ s.ret = "True")
    THEN Broken
    ELSE hist

\* the calls of the last operation: which callback, and whether it raised
CallLog(s) ==
    [i \in 1..Len(s.calls) |->
        [observer |-> s.calls[i].observer, raised |-> s.calls[i].raised]]

Commit(s0, op) ==
    \E s1 \in {s0} : \E s \in {Normalize(s1)} :
       /\ transition_path' = s.transition_path
       /\ shader_path' = s.shader_path
       /\ transition_data' = s.transition_data
       /\ shader_data' = s.shader_data
       /\ undo_stack' = s.undo_stack
       /\ redo_stack' = s.redo_stack
       /\ heap' = s.heap
       /\ held' = s.held
       /\ disk' = s.disk
       /\ writable' = s.writable
       /\ notified' = s.notified
       /\ ret' = s.ret
       /\ lastop' = op
       /\ track' = NextTrack(op, s)
       /\ before' = Before(op)
       /\ hist' = NextHist(op, s)
       /\ budget' = budget - 1
       /\ _on_change_callbacks' = s._on_change_callbacks
       /\ calls' = CallLog(s)

\* the `data` argument of set/add: the object the caller holds (FromHeld),
\* or a dict the caller has just built with content v
FromHeld == -1
DataSrc == {FromHeld} \cup Vals
Arg(s, src) ==
    IF src = FromHeld THEN [s |-> s, addr |-> s.held]
    ELSE [s |-> [s EXCEPT !.heap = Append(@, src)], addr |-> Len(s.heap) + 1]
ArgOk(src) == src = FromHeld => held # None

-----------------------------------------------------------------------------
(* Actions: one per call the UI makes *)

SetTransition(name, src) ==
    /\ budget > 0 /\ ArgOk(src)
    /\ \E st \in {Store} : \E a \in {Arg(st, src)} :
          Commit(set_transition(a.s, name, a.addr, TRUE), "set_transition")

\* json_mgr.set_transition(name, data, push_undo=False)
SetTransitionNoUndo(name, src) ==
    /\ budget > 0 /\ ArgOk(src)
    /\ \E st \in {Store} : \E a \in {Arg(st, src)} :
          Commit(set_transition(a.s, name, a.addr, FALSE),
                 "set_transition(push_undo=False)")

\* trans_update_field(name, field, value):
\*   preset = json_mgr.get_transition(name) or {}
\*   preset[field] = value
\*   json_mgr.set_transition(name, preset)
TransUpdateField(name, value) ==
    /\ budget > 0
    /\ \E st \in {Store} : \E preset \in {get_transition(st, name)} :
       \E a \in {IF preset # None
                  THEN [s |-> [st EXCEPT !.heap[preset] = value], addr |-> preset]
                  ELSE Arg(st, value)} :
          Commit(set_transition(a.s, name, a.addr, TRUE), "trans_update_field")

AddTransition(name, src) ==
    /\ budget > 0 /\ ArgOk(src)
    /\ \E st \in {Store} : \E a \in {Arg(st, src)} :
          Commit(add_transition(a.s, name, a.addr), "add_transition")

DeleteTransition(name) ==
    /\ budget > 0
    /\ \E st \in {Store} : Commit(delete_transition(st, name), "delete_transition")

DeleteTransitions(names) ==
    /\ budget > 0
    /\ \E st \in {Store} : Commit(delete_transitions(st, names), "delete_transitions")

RenameTransition(old_name, new_name) ==
    /\ budget > 0
    /\ \E st \in {Store} : Commit(rename_transition(st, old_name, new_name), "rename_transition")

DuplicateTransition(name, new_name) ==
    /\ budget > 0
    /\ \E st \in {Store} : Commit(duplicate_transition(st, name, new_name), "duplicate_transition")

MoveTransition(name, direction) ==
    /\ budget > 0
    /\ \E st \in {Store} : Commit(move_transition(st, name, direction), "move_transition")

\* preset = json_mgr.get_transition(name): the caller now holds the result
GetTransition(name) ==
    /\ budget > 0
    /\ \E st \in {Store} :
          Commit([st EXCEPT !.held = get_transition(st, name)], "get_transition")

SetShader(name, src) ==
    /\ budget > 0 /\ ArgOk(src)
    /\ \E st \in {Store} : \E a \in {Arg(st, src)} :
          Commit(set_shader(a.s, name, a.addr, TRUE), "set_shader")

AddShader(name, src) ==
    /\ budget > 0 /\ ArgOk(src)
    /\ \E st \in {Store} : \E a \in {Arg(st, src)} :
          Commit(add_shader(a.s, name, a.addr), "add_shader")

DeleteShader(name) ==
    /\ budget > 0
    /\ \E st \in {Store} : Commit(delete_shader(st, name), "delete_shader")

DeleteShaders(names) ==
    /\ budget > 0
    /\ \E st \in {Store} : Commit(delete_shaders(st, names), "delete_shaders")

RenameShader(old_name, new_name) ==
    /\ budget > 0
    /\ \E st \in {Store} : Commit(rename_shader(st, old_name, new_name), "rename_shader")

DuplicateShader(name, new_name) ==
    /\ budget > 0
    /\ \E st \in {Store} : Commit(duplicate_shader(st, name, new_name), "duplicate_shader")

MoveShader(name, direction) ==
    /\ budget > 0
    /\ \E st \in {Store} : Commit(move_shader(st, name, direction), "move_shader")

\* preset = json_mgr.get_shader(name): the caller now holds the result
GetShader(name) ==
    /\ budget > 0
    /\ \E st \in {Store} :
          Commit([st EXCEPT !.held = get_shader(st, name)], "get_shader")

\* preset[field] = value on the object the caller holds
CallerMutate(v) ==
    /\ budget > 0 /\ held # None /\ heap[held] # v
    /\ Commit([Store EXCEPT !.heap[held] = v], "mutate")

\* textshader_tab.textshader_shader_callback: its first statement calls
\* json_mgr.get_textshader, which JsonManager does not define
JsonManagerAttrs ==
    {"set_paths", "load", "save", "push_undo", "undo", "redo", "can_undo",
     "can_redo", "undo_count", "redo_count", "on_change",
     "transition_path", "shader_path", "transition_data", "shader_data",
     "undo_stack", "redo_stack",
     "get_transition_names", "get_transition", "set_transition",
     "add_transition", "delete_transition", "delete_transitions",
     "rename_transition", "duplicate_transition", "move_transition",
     "get_unique_transition_name",
     "get_shader_names", "get_shader", "set_shader", "add_shader",
     "delete_shader", "delete_shaders", "rename_shader", "duplicate_shader",
     "move_shader", "get_unique_shader_name"}

TextshaderShaderCallback ==
    /\ budget > 0
    /\ "get_textshader" \notin JsonManagerAttrs
    /\ \E st \in {Store} :
          Commit([st EXCEPT !.ret = "AttributeError"], "textshader_shader_callback")

\* name = json_mgr.get_unique_transition_name(base)
GetUniqueTransitionName(base) ==
    /\ budget > 0
    /\ \E st \in {Store} :
          Commit([st EXCEPT !.ret = get_unique_transition_name(st, base)],
                 "get_unique_transition_name")

GetUniqueShaderName(base) ==
    /\ budget > 0
    /\ \E st \in {Store} :
          Commit([st EXCEPT !.ret = get_unique_shader_name(st, base)],
                 "get_unique_shader_name")

\* json_mgr.on_change(callback), as main() and init_demo_tab() call it
OnChange(callback) ==
    /\ budget > 0 /\ Len(_on_change_callbacks) < MaxObservers
    /\ \E st \in {Store} : Commit(on_change(st, callback), "on_change")

Undo == budget > 0 /\ \E st \in {Store} : Commit(undo(st), "undo")
Redo == budget > 0 /\ \E st \in {Store} : Commit(redo(st), "redo")
Load == budget > 0 /\ \E st \in {Store} : Commit(load(st), "load")
Save == budget > 0 /\ \E st \in {Store} : Commit(save(st), "save")

-----------------------------------------------------------------------------
(* Start-up: JsonManager(), set_paths(...), load() as App.load_data does,   *)
(* over a few initial files                                                *)

AB == << <<"a", 0>>, <<"b", 1>> >>
TransitionFiles == {MissingFile, JsonFile(<< <<"presets", AB>> >>)}
ShaderFiles == {JsonFile(<< <<"shader_presets", << <<"a", 1>>, <<"b", 0>> >> >> >>)}
PathChoices == {<<TFile, SFile>>}
WritableChoices == {[x \in Files |-> TRUE]}

Started(s, steps) ==
    /\ transition_path = s.transition_path
    /\ shader_path = s.shader_path
    /\ transition_data = s.transition_data
    /\ shader_data = s.shader_data
    /\ undo_stack = s.undo_stack
    /\ redo_stack = s.redo_stack
    /\ heap = s.heap
    /\ held = s.held
    /\ disk = s.disk
    /\ writable = s.writable
    /\ notified = s.notified
    /\ ret = s.ret
    /\ lastop = "load"
    /\ track = NoTrack
    /\ before = [undo_count |-> 0, redo_count |-> 0]
    /\ hist = FreshHist
    /\ budget = steps
    /\ _on_change_callbacks = s._on_change_callbacks
    /\ calls = CallLog(s)

StartUp(tf, sf, paths, w) ==
    Then(set_paths(Construct([x \in Files |-> IF x = TFile THEN tf ELSE sf], w),
                   paths[1], paths[2]), LAMBDA s0 :
    Then(load(s0), LAMBDA s1 : Normalize(s1)))

Init ==
    \E tf \in TransitionFiles, sf \in ShaderFiles,
       paths \in PathChoices, w \in WritableChoices :
        Started(StartUp(tf, sf, paths, w), MaxSteps)

\* the arguments the calls are explored with
Directions == {"top", "up", "down", "bottom"}
SetArgs == {<<"a", FromHeld>>, <<"a", 1>>, <<"b", FromHeld>>, <<"b", 1>>}
AddArgs == {<<"a", 1>>, <<"c", 0>>}
NameLists == {<<>>, <<"a", "b">>}
NamePairs == {<<"a", "b">>, <<"b", "c">>}

Next ==
    \/ \E x \in SetArgs : SetTransition(x[1], x[2])
    \/ \E x \in AddArgs : AddTransition(x[1], x[2])
    \/ \E n \in Names : DeleteTransition(n)
    \/ \E l \in NameLists : DeleteTransitions(l)
    \/ \E x \in NamePairs : RenameTransition(x[1], x[2])
    \/ \E x \in NamePairs : DuplicateTransition(x[1], x[2])
    \/ \E d \in Directions : MoveTransition("a", d)
    \/ \E n \in Names : GetTransition(n)
    \/ \E x \in SetArgs : SetShader(x[1], x[2])
    \/ \E x \in AddArgs : AddShader(x[1], x[2])
    \/ \E n \in Names : DeleteShader(n)
    \/ \E l \in NameLists : DeleteShaders(l)
    \/ \E x \in NamePairs : RenameShader(x[1], x[2])
    \/ \E x \in NamePairs : DuplicateShader(x[1], x[2])
    \/ \E d \in Directions : MoveShader("a", d)
    \/ \E n \in Names : GetShader(n)
    \/ \E v \in Vals : CallerMutate(v)
    \/ Undo
    \/ Redo
    \/ Load
    \/ Save
    \/ TextshaderShaderCallback

Spec == Init /\ [][Next]_vars

\* Long runs of a few calls: enough operations to overflow the undo stack
\* and to undo all of it again
HistoryShaderFiles ==
    {MissingFile, MalformedFile,
     JsonFile(<< <<"shader_presets", << <<"a", 1>> >> >> >>)}

InitHistory ==
    \E sf \in HistoryShaderFiles :
        Started(StartUp(JsonFile(<< <<"presets", AB>> >>), sf, <<TFile, SFile>>,
                        [x \in Files |-> TRUE]),
                MAX_UNDO_LEVELS + HistExtra)

NextHistory ==
    \/ \E v \in Vals : SetTransition("a", v)
    \/ DeleteShader("a")
    \/ AddShader("b", 0)
    \/ Undo
    \/ Redo
    \/ Load

SpecHistory == InitHistory /\ [][NextHistory]_vars

-----------------------------------------------------------------------------
(* Properties *)

Last(st) == st[Len(st)]
Front(st) == SubSeq(st, 1, Len(st) - 1)
Min(a, b) == IF a < b THEN a ELSE b
Presets(doc, key) == Get(doc, key, <<>>)
StoreFields == <<transition_data, shader_data, undo_stack, redo_stack, heap, disk>>

\* C1: after an edit that ran (set/add/delete/delete_many/rename/duplicate/
\* move on either collection, called with the default push_undo=True), an
\* immediately following undo() leaves both collections equal by keys, key
\* order and values to their state before the edit, and a redo() right
\* after that leaves them equal to their state after the edit.
C1_UndoRedoInverse ==
    /\ track.phase = "undone" => StoreView(Store) = track.pre
    /\ track.phase = "redone" => StoreView(Store) = track.post

C1_Witness == track.phase = "redone" /\ track.pre # track.post

\* C2: when the redo stack is non-empty, an edit that runs leaves the redo
\* stack empty, and a redo() called next returns False.
C2_RedoInvalidation ==
    [][(redo_stack # <<>> /\ lastop' \in Edits /\ notified' > 0)
         => (redo_stack' = <<>> /\ redo(Store').ret = "False")]_vars

C2_Witness == lastop \in Edits /\ notified > 0 /\ before.redo_count > 0

\* C3: the undo stack never holds more than MAX_UNDO_LEVELS snapshots,
\* whatever sequence of load, edits, undo and redo was made.
C3_UndoStackBounded == Len(undo_stack) <= MAX_UNDO_LEVELS

C3_Witness ==
    lastop = "redo" /\ ret = "True" /\ Len(undo_stack) = MAX_UNDO_LEVELS

\* C4: from a freshly loaded store, after n edits that ran the undo stack
\* holds the states before the last min(n, MAX_UNDO_LEVELS) of them, oldest
\* first (exactly MAX_UNDO_LEVELS snapshots once n >= MAX_UNDO_LEVELS); j
\* undo() calls that follow install the state before the j-th last edit and
\* j never exceeds min(n, MAX_UNDO_LEVELS), so none of the n - MAX_UNDO_LEVELS
\* oldest states is ever installed (when the states before the edits are
\* pairwise different, the current state differs from each of them).
C4_BoundedHistory ==
    hist.pure =>
        LET n == Len(hist.pres)
            m == Min(n, MAX_UNDO_LEVELS)
            j == hist.undone
        IN /\ j <= m
           /\ Len(undo_stack) = m - j
           /\ StackView(undo_stack, heap) = SubSeq(hist.pres, n - m + 1, n - j)
           /\ j > 0 => StoreView(Store) = hist.pres[n - j + 1]
           /\ (j > 0 /\ \A a, b \in 1..n : a # b => hist.pres[a] # hist.pres[b])
                => \A i \in 1..(n - MAX_UNDO_LEVELS) : StoreView(Store) # hist.pres[i]

C4_Witness ==
    /\ hist.pure
    /\ Len(hist.pres) > MAX_UNDO_LEVELS
    /\ hist.undone = MAX_UNDO_LEVELS
    /\ \A a, b \in 1..Len(hist.pres) : a # b => hist.pres[a] # hist.pres[b]

\* C5: a value returned by get_transition / get_shader is a deep copy:
\* changing it changes neither a collection of the store nor a snapshot on
\* the undo or redo stack.
C5_ReturnedValuesAreCopies ==
    [][lastop' = "mutate"
         => /\ StoreView(Store') = StoreView(Store)
            /\ StackView(undo_stack', heap') = StackView(undo_stack, heap)
            /\ StackView(redo_stack', heap') = StackView(redo_stack, heap)]_vars

\* C6: an edit of one collection, the undo() after it and the redo() after
\* that each leave the other collection as it was before the edit, also when
\* both collections have an entry of the same name.
C6_CrossCollection ==
    track.phase \in {"op", "undone", "redone"} =>
        /\ track.op \in ShaderEdits
             => Serialize(transition_data, heap) = track.pre.transition_data
        /\ track.op \in TransitionEdits
             => Serialize(shader_data, heap) = track.pre.shader_data

C6_Witness ==
    /\ track.phase = "redone"
    /\ track.op \in ShaderEdits
    /\ track.pre.shader_data # track.post.shader_data
    /\ Has(Presets(transition_data, "presets"), "a")
    /\ Has(Presets(shader_data, "shader_presets"), "a")

\* C7: the store holds three collections (transitions, shaders, text
\* shaders), every snapshot on the undo or redo stack holds a copy of all
\* three, and an edit of a text-shader preset made through the UI callback
\* is recorded so that undo() can take it back.
C7_ThreeCollections ==
    LET three == {"transition_data", "shader_data", "textshader_data"}
    IN /\ \A i \in 1..Len(undo_stack) : DOMAIN undo_stack[i] = three
       /\ \A i \in 1..Len(redo_stack) : DOMAIN redo_stack[i] = three
       /\ lastop = "textshader_shader_callback"
            => (ret # "AttributeError" /\ can_undo(Store))

\* C8: undo() on a non-empty undo stack returns True, puts a copy of the
\* current collections on top of the redo stack, installs the popped top of
\* the undo stack and leaves the other snapshots of both stacks as they
\* were; redo() does the same with the two stacks exchanged.
C8_UndoRedoStep ==
    [][/\ (lastop' = "undo" /\ undo_stack # <<>>)
            => /\ ret' = "True"
               /\ StackView(redo_stack', heap')
                    = Append(StackView(redo_stack, heap), StoreView(Store))
               /\ StoreView(Store') = SnapView(Last(undo_stack), heap)
               /\ StackView(undo_stack', heap')
                    = Front(StackView(undo_stack, heap))
       /\ (lastop' = "redo" /\ redo_stack # <<>>)
            => /\ ret' = "True"
               /\ StackView(undo_stack', heap')
                    = Append(StackView(undo_stack, heap), StoreView(Store))
               /\ StoreView(Store') = SnapView(Last(redo_stack), heap)
               /\ StackView(redo_stack', heap')
                    = Front(StackView(redo_stack, heap))]_vars

C8_Witness == lastop = "undo" /\ ret = "True" /\ Len(redo_stack) > 1

\* C9: undo() returns False exactly when the undo stack is empty and redo()
\* exactly when the redo stack is empty; the failing call changes neither
\* the collections, nor a stack, nor a file, and notifies no observer.
C9_FailedUndoRedo ==
    [][/\ lastop' = "undo"
            => /\ (ret' = "False") <=> ~can_undo(Store)
               /\ ret' = "False" => (StoreFields' = StoreFields /\ notified' = 0)
       /\ lastop' = "redo"
            => /\ (ret' = "False") <=> ~can_redo(Store)
               /\ ret' = "False" => (StoreFields' = StoreFields /\ notified' = 0)]_vars

C9_Witness == lastop = "undo" /\ ret = "False" /\ redo_stack # <<>>

\* C10: after load() both stacks are empty (can_undo and can_redo are
\* False) and undo() fails, also when a file was missing or malformed and
\* load() returned False.
C10_LoadClearsHistory ==
    lastop = "load" =>
        /\ undo_stack = <<>> /\ redo_stack = <<>>
        /\ ~can_undo(Store) /\ ~can_redo(Store)
        /\ undo(Store).ret = "False" /\ redo(Store).ret = "False"

C10_Witness ==
    /\ lastop = "load" /\ ret = "False"
    /\ before.undo_count > 0 /\ before.redo_count > 0

-----------------------------------------------------------------------------
(* Files: start-up over missing, malformed, unreadable, empty and           *)
(* read-only files and over empty paths (the paths come from the settings  *)
(* dialog), then a few edits, load() and save()                            *)

\* number of operations explored after start-up (SpecFiles)
FileSteps == 3

A1 == JsonFile(<< <<"shader_presets", << <<"a", 1>> >> >> >>)
ABFile == JsonFile(<< <<"presets", AB>> >>)
AllWritable == [x \in Files |-> TRUE]
ReadOnly(file) == [x \in Files |-> x # file]

\* <<transition file, shader file, paths, writable>>
FileScenarios ==
    {<<MissingFile, A1, <<TFile, SFile>>, AllWritable>>,
     <<MissingFile, A1, <<TFile, SFile>>, ReadOnly(TFile)>>,
     <<MalformedFile, A1, <<TFile, SFile>>, ReadOnly(TFile)>>,
     <<MalformedFile, A1, <<TFile, SFile>>, ReadOnly(SFile)>>,
     <<JsonFile(<<>>), A1, <<TFile, SFile>>, AllWritable>>,
     <<ABFile, UnreadableFile, <<TFile, SFile>>, ReadOnly(SFile)>>,
     <<ABFile, A1, <<TFile, SFile>>, ReadOnly(TFile)>>,
     <<ABFile, A1, <<TFile, SFile>>, ReadOnly(SFile)>>,
     <<ABFile, A1, <<"", SFile>>, AllWritable>>,
     <<ABFile, A1, <<TFile, "">>, AllWritable>>}

InitFiles ==
    \E x \in FileScenarios :
        Started(StartUp(x[1], x[2], x[3], x[4]), FileSteps)

NextFiles ==
    \/ SetTransition("a", 1)
    \/ AddShader("b", 0)
    \/ DeleteShader("a")
    \/ GetShader("a")
    \/ \E v \in Vals : CallerMutate(v)
    \/ Undo
    \/ Redo
    \/ Load
    \/ Save

SpecFiles == InitFiles /\ [][NextFiles]_vars

\* C11: load() returns False if and only if some collection with a
\* non-empty path has a file that exists and could not be read or parsed; a
\* missing file, or a file holding the empty JSON object, does not make
\* load() return False.
C11_LoadFailsOnlyOnBadFile ==
    LET failed(p) == p # "" /\ disk[p].kind \in {"malformed", "unreadable"}
    IN lastop = "load" =>
          ((ret = "False") <=> (failed(transition_path) \/ failed(shader_path)))

\* C12: load() returns normally; a collection with a non-empty path comes
\* out as the content of its file, or as the empty mapping when the file is
\* missing, unreadable or malformed (whatever it held before and whatever
\* happened to the other collection); a collection with an empty path is
\* left as it was.
LoadedAs(p, new, old) ==
    IF p = "" THEN new = old
    ELSE IF disk[p].kind = "json" THEN new = disk[p].doc
    ELSE new = <<>>

C12_LoadPerCollection ==
    [][lastop' = "load" =>
         /\ ret' \in {"True", "False"}
         /\ LoadedAs(transition_path, Serialize(transition_data', heap'),
                     Serialize(transition_data, heap))
         /\ LoadedAs(shader_path, Serialize(shader_data', heap'),
                     Serialize(shader_data, heap))]_vars

C12_Witness ==
    /\ lastop = "load" /\ "view" \in DOMAIN before
    /\ transition_path # "" /\ disk[transition_path].kind = "malformed"
    /\ before.view.transition_data # <<>> /\ transition_data = <<>>
    /\ shader_data # <<>>

\* C13: save() writes every collection that has a non-empty path and
\* non-empty content and whose file can be written, also after an earlier
\* write failed; it returns False exactly when one of these writes failed,
\* and it changes neither the collections nor the stacks nor any other
\* file.
Attempted(p, d) == p # "" /\ d # <<>>
FileAfterSave(file, p, d) ==
    IF p = file /\ d # <<>> /\ writable[file]
    THEN JsonFile(Serialize(d, heap)) ELSE disk[file]

C13_SaveAttemptsAll ==
    [][lastop' = "save" =>
         /\ (ret' = "False") <=>
               \/ Attempted(transition_path, transition_data)
                     /\ ~writable[transition_path]
               \/ Attempted(shader_path, shader_data)
                     /\ ~writable[shader_path]
         /\ ret' \in {"True", "False"}
         /\ disk'[TFile] = FileAfterSave(TFile, transition_path, transition_data)
         /\ disk'[SFile] = FileAfterSave(SFile, shader_path, shader_data)
         /\ StoreView(Store') = StoreView(Store)
         /\ StackView(undo_stack', heap') = StackView(undo_stack, heap)
         /\ StackView(redo_stack', heap') = StackView(redo_stack, heap)]_vars

C13_Witness ==
    /\ lastop = "save" /\ ret = "False" /\ "disk" \in DOMAIN before
    /\ transition_path # "" /\ transition_data # <<>> /\ ~writable[TFile]
    /\ disk[SFile] # before.disk[SFile]

\* C14: a failed write never rolls an operation back: in every reachable
\* state, each edit, undo() and redo() leaves the same collections, the
\* same stacks, the same result and the same notification as it would with
\* every file writable, and an edit that ran leaves the state before it on
\* top of the undo stack.
OneFresh(s) == Arg(s, 1)
Calls(s) ==
    <<set_transition(OneFresh(s).s, "a", OneFresh(s).addr, TRUE),
      add_transition(OneFresh(s).s, "c", OneFresh(s).addr),
      delete_transition(s, "a"),
      delete_transitions(s, <<"a", "b">>),
      rename_transition(s, "a", "c"),
      duplicate_transition(s, "a", "c"),
      move_transition(s, "a", "down"),
      set_shader(OneFresh(s).s, "b", OneFresh(s).addr, TRUE),
      add_shader(OneFresh(s).s, "c", OneFresh(s).addr),
      delete_shader(s, "a"),
      delete_shaders(s, <<"a", "b">>),
      rename_shader(s, "a", "c"),
      duplicate_shader(s, "a", "c"),
      move_shader(s, "a", "down"),
      undo(s),
      redo(s)>>
InMemory(s) ==
    [view |-> StoreView(s),
     undo_stack |-> StackView(s.undo_stack, s.heap),
     redo_stack |-> StackView(s.redo_stack, s.heap),
     notified |-> s.notified, ret |-> s.ret]

C14_FailedAutosaveKeepsEdit ==
    \E st \in {Store} :
    \E r \in {Calls(st)} :
    \E w \in {Calls([st EXCEPT !.writable = AllWritable])} :
        \A i \in 1..Len(r) :
            /\ InMemory(r[i]) = InMemory(w[i])
            /\ (i <= 14 /\ r[i].notified > 0)
                  => /\ r[i].undo_stack # <<>>
                     /\ SnapView(Last(r[i].undo_stack), r[i].heap) = StoreView(st)

C14_Witness ==
    /\ lastop = "set_transition" /\ notified = 1
    /\ transition_path # "" /\ ~writable[TFile]
    /\ disk[TFile] # JsonFile(Serialize(transition_data, heap))
    /\ undo_stack # <<>>
    /\ SnapView(Last(undo_stack), heap) # StoreView(Store)

-----------------------------------------------------------------------------
(* Names: collections with comment keys between the presets; rename,        *)
(* duplicate, delete and move with present, absent and conflicting names   *)

\* number of operations explored after start-up (SpecNames)
NameSteps == 3

Commented == << <<"b", 0>>, <<"_meta", 1>>, <<"a", 1>>, <<"_note", 0>> >>
CommentedFile == JsonFile(<< <<"presets", Commented>> >>)
CommentedShaders ==
    JsonFile(<< <<"shader_presets",
                  << <<"a", 1>>, <<"_meta", 0>>, <<"b", 0>> >> >> >>)

InitNames ==
    \E tf \in {ABFile, CommentedFile} :
        Started(StartUp(tf, CommentedShaders, <<TFile, SFile>>, AllWritable),
                NameSteps)

NextNames ==
    \/ \E x \in {<<"a", "b">>, <<"a", "c">>} : RenameTransition(x[1], x[2])
    \/ \E x \in {<<"a", "b">>, <<"a", "c">>} : DuplicateTransition(x[1], x[2])
    \/ DeleteTransition("a")
    \/ \E l \in {<<"a", "b">>, <<"c">>} : DeleteTransitions(l)
    \/ \E d \in Directions : MoveTransition("a", d)
    \/ RenameShader("a", "c")
    \/ DuplicateShader("a", "c")
    \/ DeleteShader("b")
    \/ DeleteShaders(<<"a", "b">>)
    \/ MoveShader("b", "top")
    \/ Undo
    \/ Redo

SpecNames == InitNames /\ [][NextNames]_vars

\* the names and the two collections the calls below are made with
SomeNames == {"a", "b", "c"}
Collections == {<<"transition_data", "presets">>,
                <<"shader_data", "shader_presets">>}
Rename(s, c, old_name, new_name) ==
    IF c[1] = "transition_data" THEN rename_transition(s, old_name, new_name)
    ELSE rename_shader(s, old_name, new_name)
Duplicate(s, c, name, new_name) ==
    IF c[1] = "transition_data" THEN duplicate_transition(s, name, new_name)
    ELSE duplicate_shader(s, name, new_name)
Delete(s, c, name) ==
    IF c[1] = "transition_data" THEN delete_transition(s, name)
    ELSE delete_shader(s, name)
DeleteMany(s, c, names) ==
    IF c[1] = "transition_data" THEN delete_transitions(s, names)
    ELSE delete_shaders(s, names)
Move(s, c, name, direction) ==
    IF c[1] = "transition_data" THEN move_transition(s, name, direction)
    ELSE move_shader(s, name, direction)

\* the call changed no collection, no stack and no file and notified nobody
NoEffect(r, s) ==
    /\ r.transition_data = s.transition_data /\ r.shader_data = s.shader_data
    /\ r.undo_stack = s.undo_stack /\ r.redo_stack = s.redo_stack
    /\ r.heap = s.heap /\ r.disk = s.disk
    /\ r.notified = 0

\* C15: in every reachable state, rename(old, new) with old absent or new
\* present (new = old included) returns False and changes no collection,
\* no stack and no file and notifies no observer.
C15_RenameConflict ==
    \E st \in {Store} :
    \A c \in Collections, old_name \in SomeNames, new_name \in SomeNames :
        (~Has(Presets(st[c[1]], c[2]), old_name)
            \/ Has(Presets(st[c[1]], c[2]), new_name))
        => \E r \in {Rename(st, c, old_name, new_name)} :
              r.ret = "False" /\ NoEffect(r, st)

C15_Witness ==
    /\ lastop = "rename_transition" /\ ret = "False"
    /\ Has(Presets(transition_data, "presets"), "a")
    /\ Has(Presets(transition_data, "presets"), "b")
    /\ ~Has(Presets(transition_data, "presets"), "c")
    /\ redo_stack # <<>>

\* C16: duplicate(name, new_name) with new_name already in the collection
\* returns False, changes nothing and pushes no snapshot.
C16_DuplicateConflict ==
    \E st \in {Store} :
    \A c \in Collections, name \in SomeNames, new_name \in SomeNames :
        Has(Presets(st[c[1]], c[2]), new_name)
        => \E r \in {Duplicate(st, c, name, new_name)} :
              r.ret = "False" /\ NoEffect(r, st)

C18_NotFoundNoOp ==
    \E st \in {Store} :
    \A c \in Collections, name \in SomeNames :
        ~Has(Presets(st[c[1]], c[2]), name)
        => /\ NoEffect(Delete(st, c, name), st)
           /\ NoEffect(DeleteMany(st, c, <<name>>), st)
           /\ NoEffect(Rename(st, c, name, "d"), st)
           /\ NoEffect(Duplicate(st, c, name, "d"), st)
           /\ NoEffect(Move(st, c, name, "up"), st)

\* C19: delete_many(names) with a non-empty list pushes one snapshot (the
\* state before the call), removes every listed name that is present and
\* leaves the other entries and their order; one undo() after it restores
\* both collections with all entries, values and order.
DeleteLists == {<<"a">>, <<"a", "b">>, <<"c", "a">>, <<"b", "a", "b">>}

C19_DeleteMany ==
    \E st \in {Store} :
    \A c \in Collections, l \in DeleteLists :
        \E p \in {Presets(st[c[1]], c[2])} :
        \E r \in {DeleteMany(st, c, l)} :
            /\ Len(r.undo_stack) <= Len(st.undo_stack) + 1
            /\ r.undo_stack # <<>>
            /\ SnapView(Last(r.undo_stack), r.heap) = StoreView(st)
            /\ StackView(Front(r.undo_stack), r.heap)
                  = IF Len(st.undo_stack) < MAX_UNDO_LEVELS
                    THEN StackView(st.undo_stack, st.heap)
                    ELSE Tail(StackView(st.undo_stack, st.heap))
            /\ Presets(r[c[1]], c[2])
                  = SelectSeq(p, LAMBDA e : ~InList(e[1], l))
            /\ StoreView(undo(r)) = StoreView(st)

C19_Witness ==
    /\ track.phase = "undone" /\ track.op = "delete_transitions"
    /\ Len(Presets(track.pre.transition_data, "presets"))
          >= Len(Presets(track.post.transition_data, "presets")) + 2
    /\ StoreView(Store) = track.pre
    /\ before.undo_count = 1

\* C20: after a move that returned True every comment key precedes every
\* other key, and the comment keys have their former relative order and
\* values, wherever they were before the move.
CommentsOf(p) == SelectSeq(p, LAMBDA e : StartsWithUnderscore(e[1]))
PresetsOf(p) == SelectSeq(p, LAMBDA e : ~StartsWithUnderscore(e[1]))

C20_CommentPinning ==
    \E st \in {Store} :
    \A c \in Collections, name \in SomeNames, d \in Directions :
        \E r \in {Move(st, c, name, d)} :
            r.ret = "True" =>
                \E p \in {Presets(st[c[1]], c[2])} :
                \E q \in {Presets(r[c[1]], c[2])} :
                    /\ q = CommentsOf(p) \o PresetsOf(q)
                    /\ \A a \in 1..Len(st.heap) : r.heap[a] = st.heap[a]

C20_Witness ==
    /\ lastop = "move_transition" /\ ret = "True"
    /\ before.undo_count = 0
    /\ Keys(Presets(transition_data, "presets")) = <<"_meta", "_note", "a", "b">>
    /\ Serialize(transition_data, heap)
          = << <<"presets", << <<"_meta", 1>>, <<"_note", 0>>,
                               <<"a", 1>>, <<"b", 0>> >> >> >>

-----------------------------------------------------------------------------
(* Observers: callbacks registered after load_data(), some of which raise, *)
(* then edits, undo(), redo(), load() and save()                           *)

\* number of operations explored after start-up (SpecObservers)
ObserverSteps == 4

InitObservers ==
    Started(StartUp(ABFile, A1, <<TFile, SFile>>, AllWritable), ObserverSteps)

NextObservers ==
    \/ \E k \in {"returns", "raises"} : OnChange(k)
    \/ SetTransition("a", 1)
    \/ DeleteTransition("b")
    \/ \E x \in {<<"a", "b">>, <<"a", "c">>} : RenameTransition(x[1], x[2])
    \/ DeleteShaders(<<"a">>)
    \/ MoveShader("a", "up")
    \/ Undo
    \/ Redo
    \/ Load
    \/ Save

SpecObservers == InitObservers /\ [][NextObservers]_vars

Set(s, c, name) ==
    IF c[1] = "transition_data"
    THEN set_transition(OneFresh(s).s, name, OneFresh(s).addr, TRUE)
    ELSE set_shader(OneFresh(s).s, name, OneFresh(s).addr, TRUE)
Add(s, c, name) ==
    IF c[1] = "transition_data"
    THEN add_transition(OneFresh(s).s, name, OneFresh(s).addr)
    ELSE add_shader(OneFresh(s).s, name, OneFresh(s).addr)

\* the callbacks the calls of one operation went to, in call order
Observers(r) == [i \in 1..Len(r.calls) |-> r.calls[i].observer]
\* one pass: every registered callback called once, each finding the
\* collections and the stacks the operation leaves
Once(r) ==
    /\ r.notified = 1
    /\ Observers(r) = [i \in 1..Len(r._on_change_callbacks) |-> i]
    /\ \A i \in 1..Len(r.calls) :
          /\ StoreView(r.calls[i].seen) = StoreView(r)
          /\ r.calls[i].seen.undo_stack = r.undo_stack
          /\ r.calls[i].seen.redo_stack = r.redo_stack
Never(r) == r.notified = 0 /\ r.calls = <<>>
OnceIf(cond, r) == IF cond THEN Once(r) ELSE Never(r)

AllReturn(s) ==
    [s EXCEPT !._on_change_callbacks = [i \in 1..Len(@) |-> "returns"]]

C25_ObserverFailureIsolation ==
    \E st \in {Store} :
    \E r \in {Append(Calls(st), load(st))} :
    \E w \in {Append(Calls(AllReturn(st)), load(AllReturn(st)))} :
        \A i \in 1..Len(r) :
            /\ r[i].ret \in {"True", "False", "None"}
            /\ InMemory(r[i]) = InMemory(w[i])
            /\ r[i].disk = w[i].disk
            /\ Observers(r[i]) = Observers(w[i])

C25_Witness ==
    /\ lastop = "set_transition" /\ notified = 1
    /\ calls = <<[observer |-> 1, raised |-> TRUE],
                 [observer |-> 2, raised |-> FALSE]>>
    /\ undo_stack # <<>>

\* C26: in every reachable state, every callback called by an edit finds the
\* collections as the edit leaves them, the state before the edit on top of
\* the undo stack, the redo stack empty, and every file as the edit leaves
\* it, which for a collection with a path, content and a writable file is
\* the collection as the edit leaves it.
Written(o, p, d) ==
    (p # "" /\ d # <<>> /\ o.writable[p])
        => o.disk[p] = JsonFile(Serialize(d, o.heap))

C26_WritePipeline ==
    \E st \in {Store} :
    \E r \in {Calls(st)} :
        \A i \in 1..14 : \A k \in 1..Len(r[i].calls) :
            \E o \in {r[i].calls[k].seen} :
                /\ StoreView(o) = StoreView(r[i])
                /\ o.undo_stack # <<>>
                /\ SnapView(Last(o.undo_stack), o.heap) = StoreView(st)
                /\ o.undo_stack = r[i].undo_stack
                /\ o.redo_stack = <<>>
                /\ o.disk = r[i].disk
                /\ Written(o, o.transition_path, o.transition_data)
                /\ Written(o, o.shader_path, o.shader_data)

C26_Witness ==
    /\ track.phase = "op" /\ track.op = "rename_transition"
    /\ track.pre # track.post
    /\ Len(calls) = 2
    /\ disk[TFile] = JsonFile(track.post.transition_data)
    /\ SnapView(Last(undo_stack), heap) = track.pre

-----------------------------------------------------------------------------
(* Order: files with comment keys between the presets, with an empty key,  *)
(* with suffixed names and without the top-level key; set, add, rename,    *)
(* move, get_unique_*_name and save()                                      *)

\* number of operations explored after start-up (SpecOrder)
OrderSteps == 3

OrderFiles ==
    {JsonFile(<< <<"presets", << <<"b", 0>>, <<"_meta", 1>>, <<"a", 1>>,
                                 <<"_note", 0>>, <<"c", 0>> >> >> >>),
     JsonFile(<< <<"presets", << <<"", 0>>, <<"a", 1>>, <<"b", 0>> >> >> >>),
     JsonFile(<< <<"presets", << <<"x", 0>>, <<"_meta", 1>>, <<"x_1", 1>> >> >> >>),
     JsonFile(<< <<"version", <<>> >> >>)}

InitOrder ==
    \E tf \in OrderFiles :
        Started(StartUp(tf, CommentedShaders, <<TFile, SFile>>, AllWritable),
                OrderSteps)

NextOrder ==
    \/ SetTransition("a", 1)
    \/ \E x \in {<<"a", 0>>, <<"x_2", 1>>} : AddTransition(x[1], x[2])
    \/ RenameTransition("a", "d")
    \/ \E d \in Directions : MoveTransition("a", d)
    \/ \E b \in {"x", "_meta"} : GetUniqueTransitionName(b)
    \/ AddShader("a_1", 1)
    \/ GetUniqueShaderName("a")
    \/ MoveShader("b", "up")
    \/ Save
    \/ Undo

SpecOrder == InitOrder /\ [][NextOrder]_vars

\* the names and the base names the calls below are made with
OrderNames == {"", "a", "b", "d", "x"}
Bases == {"a", "x", "x_1", "_meta", "new_preset"}
GetNames(s, c) ==
    IF c[1] = "transition_data" THEN get_transition_names(s)
    ELSE get_shader_names(s)
UniqueName(s, c, base) ==
    IF c[1] = "transition_data" THEN get_unique_transition_name(s, base)
    ELSE get_unique_shader_name(s, base)
PathOf(s, c) ==
    IF c[1] = "transition_data" THEN s.transition_path ELSE s.shader_path

\* C21: in every reachable state, save() writes each collection that has a
\* path and content with all comment keys first, in their relative order,
\* followed by the other keys in their current order.
C21_SaveOrder ==
    \E st \in {Store} : \E r \in {save(st)} :
    \A c \in Collections :
        (PathOf(st, c) # "" /\ st[c[1]] # <<>>)
        => \E p \in {Presets(Serialize(st[c[1]], st.heap), c[2])} :
              Presets(r.disk[PathOf(st, c)].doc, c[2])
                 = CommentsOf(p) \o PresetsOf(p)

\* C22: in every reachable state, get_*_names returns the keys of the
\* collection that do not start with "_", each once, in the collection's
\* order, and the empty list when the collection or its top-level key is
\* absent.
C22_ListNames ==
    \E st \in {Store} :
    \A c \in Collections :
        GetNames(st, c) = Keys(PresetsOf(Presets(st[c[1]], c[2])))

\* C22 amended: in every reachable state, get_*_names returns the keys of
\* the collection that are not the empty string and do not start with "_",
\* each once, in the collection's order, and the empty list when the
\* collection or its top-level key is absent.
C22_ListNonEmptyNames ==
    \E st \in {Store} :
    \A c \in Collections :
        \E p \in {Presets(st[c[1]], c[2])} :
            /\ GetNames(st, c)
                  = SelectSeq(Keys(PresetsOf(p)), LAMBDA k : k # "")
            /\ ~Has(st[c[1]], c[2]) => GetNames(st, c) = <<>>

C22_Witness ==
    /\ lastop = "get_unique_transition_name"
    /\ Keys(Presets(transition_data, "presets")) = <<"", "a", "b">>
    /\ get_transition_names(Store) = <<"a", "b">>

\* C23: in every reachable state, get_unique_*_name(base) returns base when
\* base is not among the names get_*_names returns, otherwise base_n for the
\* least n >= 1 with base_n not among them; the result is never one of
\* these names; the call changes no collection, no stack and no file and
\* notifies no observer.
Expected(names, base) ==
    IF ~InList(base, names) THEN base
    ELSE Suffixed(base,
            CHOOSE n \in 1..Len(names) :
               /\ ~InList(Suffixed(base, n), names)
               /\ \A k \in 1..(n - 1) : InList(Suffixed(base, k), names))

C23_UniqueName ==
    /\ \E st \in {Store} :
       \A c \in Collections, base \in Bases :
           \E names \in {GetNames(st, c)} :
           \E r \in {UniqueName(st, c, base)} :
               r = Expected(names, base) /\ ~InList(r, names)
    /\ lastop \in {"get_unique_transition_name", "get_unique_shader_name"}
         => /\ before.view = StoreView(Store)
            /\ before.disk = disk
            /\ before.undo_count = Len(undo_stack)
            /\ before.redo_count = Len(redo_stack)
            /\ notified = 0

C23_Witness ==
    /\ lastop = "get_unique_transition_name" /\ ret = "x_2"
    /\ get_transition_names(Store) = <<"x", "x_1">>
    /\ Has(Presets(transition_data, "presets"), "_meta")

\* C27: in every reachable state, move(name, direction) of a key that does
\* not start with "_" leaves the keys that do not start with "_" in this
\* order: name first for 'top', name last for 'bottom', name exchanged with
\* the one before it for 'up' and with the one after it for 'down' (as they
\* were when there is none); every key is still there, holding the object
\* it held, and no object changed.
MovedTo(names, name, direction) ==
    LET idx == IndexOf(names, name)
    IN IF direction = "top" THEN <<name>> \o Remove(names, name)
       ELSE IF direction = "bottom" THEN Append(Remove(names, name), name)
       ELSE IF direction = "up" /\ idx > 1 THEN Swap(names, idx, idx - 1)
       ELSE IF direction = "down" /\ idx < Len(names)
            THEN Swap(names, idx, idx + 1)
       ELSE names

C27_Move ==
    \E st \in {Store} :
    \A c \in Collections, d \in Directions :
        \E p \in {Presets(st[c[1]], c[2])} :
        \A name \in KeySet(PresetsOf(p)) :
            \E r \in {Move(st, c, name, d)} :
            \E q \in {Presets(r[c[1]], c[2])} :
                /\ Keys(PresetsOf(q)) = MovedTo(Keys(PresetsOf(p)), name, d)
                /\ KeySet(q) = KeySet(p)
                /\ \A i \in 1..Len(p) : Get(q, p[i][1], None) = p[i][2]
                /\ \A a \in 1..Len(st.heap) : r.heap[a] = st.heap[a]

\* C28 as stated: in every reachable state, a move at a boundary ('up' or
\* 'top' of the first name, 'down' or 'bottom' of the last) leaves the
\* collection as it was and pushes the state before it on the undo stack.
AtBoundary(names, name, direction) ==
    /\ InList(name, names)
    /\ \/ direction \in {"up", "top"} /\ names[1] = name
       \/ direction \in {"down", "bottom"} /\ names[Len(names)] = name

C28_BoundaryPushesUndo ==
    \E st \in {Store} :
    \A c \in Collections, name \in OrderNames, d \in Directions :
        AtBoundary(GetNames(st, c), name, d)
        => \E r \in {Move(st, c, name, d)} :
              /\ r[c[1]] = st[c[1]]
              /\ r.undo_stack # <<>>
              /\ Len(r.undo_stack)
                    = Min(Len(st.undo_stack) + 1, MAX_UNDO_LEVELS)
              /\ SnapView(Last(r.undo_stack), r.heap) = StoreView(st)

\* C28 amended: in every reachable state, a move at a boundary returns
\* False and changes no collection, no stack (no snapshot is pushed, the
\* redo stack is kept) and no file, and notifies no observer.
C28_BoundaryMove ==
    \E st \in {Store} :
    \A c \in Collections, name \in OrderNames, d \in Directions :
        AtBoundary(GetNames(st, c), name, d)
        => \E r \in {Move(st, c, name, d)} :
              r.ret = "False" /\ NoEffect(r, st)

C28_Witness ==
    /\ lastop = "move_transition" /\ ret = "False"
    /\ AtBoundary(get_transition_names(Store), "a", "up")
    /\ Len(get_transition_names(Store)) > 1
    /\ redo_stack # <<>>

\* C29: in every reachable state, rename(old, new) with old present and new
\* absent returns True and pushes one snapshot, the state before the call;
\* afterwards the collection is the former one without old, in the same
\* order and with the same objects, followed by new holding the object old
\* held; no object changed.
C29_RenameSuccess ==
    \E st \in {Store} :
    \A c \in Collections, old_name \in OrderNames, new_name \in OrderNames :
        \E p \in {Presets(st[c[1]], c[2])} :
            (Has(p, old_name) /\ ~Has(p, new_name))
            => \E r \in {Rename(st, c, old_name, new_name)} :
                  /\ r.ret = "True"
                  /\ r.undo_stack # <<>>
                  /\ SnapView(Last(r.undo_stack), r.heap) = StoreView(st)
                  /\ StackView(Front(r.undo_stack), r.heap)
                        = IF Len(st.undo_stack) < MAX_UNDO_LEVELS
                          THEN StackView(st.undo_stack, st.heap)
                          ELSE Tail(StackView(st.undo_stack, st.heap))
                  /\ Presets(r[c[1]], c[2])
                        = Append(Del(p, old_name),
                                 <<new_name, Get(p, old_name, None)>>)
                  /\ \A a \in 1..Len(st.heap) : r.heap[a] = st.heap[a]

C29_Witness ==
    \E p \in {Presets(track.pre.transition_data, "presets")} :
    \E q \in {Presets(transition_data, "presets")} :
        /\ lastop = "rename_transition" /\ ret = "True"
        /\ track.phase = "op"
        /\ Len(p) >= 3 /\ Has(p, "a") /\ Last(p)[1] # "a"
        /\ Last(q)[1] = "d" /\ ~Has(q, "a")
        /\ heap[Last(q)[2]] = Get(p, "a", None)

\* C30: in every reachable state, add(name, value) leaves the store
\* (collections, stacks, files, notification, result) exactly as
\* set(name, value, push_undo=True) leaves it; name then holds value, in its
\* former place when it was present and as the last key otherwise, and the
\* other keys are as they were.
C30_AddLikeSet ==
    \E st \in {Store} :
    \A c \in Collections, name \in OrderNames :
        \E p \in {Presets(st[c[1]], c[2])} :
        \E r \in {Add(st, c, name)} :
        \E q \in {Presets(r[c[1]], c[2])} :
            /\ r = Set(st, c, name)
            /\ Keys(q) = IF Has(p, name) THEN Keys(p) ELSE Append(Keys(p), name)
            /\ Get(q, name, None) = OneFresh(st).addr
            /\ \A i \in 1..Len(p) : p[i][1] # name => q[i] = p[i]

C30_Witness ==
    \E p \in {Presets(track.pre.transition_data, "presets")} :
    \E q \in {Presets(track.post.transition_data, "presets")} :
        /\ lastop = "add_transition" /\ track.phase = "op"
        /\ Len(p) >= 3 /\ Has(p, "a") /\ Last(p)[1] # "a"
        /\ Keys(q) = Keys(p)
        /\ Get(q, "a", None) # Get(p, "a", None)

-----------------------------------------------------------------------------
(* Frame: a transition file with a top-level key beside "presets"; the UI's *)
(* get / assign / set flow, set_* with push_undo=False, objects the caller *)
(* keeps, undo(), redo(), load() and save()                                *)

\* number of operations explored after start-up (SpecFrame)
FrameSteps == 4

VersionedFile ==
    JsonFile(<< <<"version", << <<"major", 1>> >> >>, <<"presets", AB>> >>)

InitFrame ==
    Started(StartUp(VersionedFile, A1, <<TFile, SFile>>, AllWritable), FrameSteps)

NextFrame ==
    \/ \E n \in Names : GetTransition(n)
    \/ \E v \in Vals : CallerMutate(v)
    \/ \E x \in {<<"a", FromHeld>>, <<"c", 1>>} : SetTransition(x[1], x[2])
    \/ \E x \in {<<"a", 1>>, <<"b", FromHeld>>} : SetTransitionNoUndo(x[1], x[2])
    \/ \E v \in Vals : TransUpdateField("a", v)
    \/ AddShader("a", FromHeld)
    \/ DeleteTransition("b")
    \/ MoveTransition("b", "top")
    \/ Undo
    \/ Redo
    \/ Load
    \/ Save

SpecFrame == InitFrame /\ [][NextFrame]_vars

SetNoUndo(s, c, name) ==
    IF c[1] = "transition_data"
    THEN set_transition(OneFresh(s).s, name, OneFresh(s).addr, FALSE)
    ELSE set_shader(OneFresh(s).s, name, OneFresh(s).addr, FALSE)

\* the top-level keys of a document other than `key`, with what they hold
Unknown(vdoc, key) == SelectSeq(vdoc, LAMBDA e : e[1] # key)
UnknownOf(s) ==
    [transition_data |-> Unknown(Serialize(s.transition_data, s.heap), "presets"),
     shader_data |-> Unknown(Serialize(s.shader_data, s.heap), "shader_presets")]
UnknownOnDisk(s) ==
    [transition_data |-> Unknown(s.disk[TFile].doc, "presets"),
     shader_data |-> Unknown(s.disk[SFile].doc, "shader_presets")]

\* C31: in every reachable state the top-level keys other than "presets" /
\* "shader_presets" are in memory and in the file what they were in the
\* loaded file (same keys, order and content); each edit, set_* with
\* push_undo=False, undo(), redo(), load() and save() leaves them so.
C31_UnknownKeysKept ==
    /\ UnknownOf(Store) = UnknownOnDisk(Store)
    /\ \E st \in {Store} :
       \E r \in {Calls(st) \o <<load(st), save(st)>>
                   \o <<SetNoUndo(st, <<"transition_data", "presets">>, "a"),
                        SetNoUndo(st, <<"shader_data", "shader_presets">>, "c")>>} :
           \A i \in 1..Len(r) :
               /\ UnknownOf(r[i]) = UnknownOf(st)
               /\ UnknownOnDisk(r[i]) = UnknownOf(st)

C31_Witness ==
    /\ lastop = "undo" /\ ret = "True" /\ redo_stack # <<>>
    /\ UnknownOf(Store).transition_data
          = << <<"version", << <<"major", 1>> >> >> >>
    /\ Unknown(disk[TFile].doc, "presets")
          = << <<"version", << <<"major", 1>> >> >> >>
    /\ Keys(SnapView(Last(redo_stack), heap).transition_data)
          = <<"version", "presets">>
    /\ SnapView(Last(redo_stack), heap) # StoreView(Store)

\* C32: at every step, no object of a snapshot on the undo or redo stack is
\* an object of the current collections, the object the caller holds, or
\* an object of another snapshot; and the content of each stack changes
\* only by a push, a pop, the eviction of the oldest snapshot or clear().
SnapshotsOf(s) == s.undo_stack \o s.redo_stack
Shared(s) ==
    \E snaps \in {SnapshotsOf(s)} :
    \E cur \in {DocAddrs(s.transition_data) \o DocAddrs(s.shader_data)
                   \o (IF s.held = None THEN <<>> ELSE <<s.held>>)} :
        \E i \in 1..Len(snaps) :
        \E own \in {SnapAddrs(snaps[i])} :
        \E k \in 1..Len(own) :
            \/ InList(own[k], cur)
            \/ \E j \in 1..Len(snaps) :
                  j # i /\ InList(own[k], SnapAddrs(snaps[j]))
StackKept(old, new) ==
    \/ new = old
    \/ new = <<>>
    \/ new = Front(old)
    \/ new # <<>> /\ Front(new) = old
    \/ new # <<>> /\ old # <<>> /\ Front(new) = Tail(old)

C32_SnapshotsImmutable ==
    [][/\ ~Shared(Store')
       /\ StackKept(StackView(undo_stack, heap), StackView(undo_stack', heap'))
       /\ StackKept(StackView(redo_stack, heap), StackView(redo_stack', heap'))]_vars

C32_Witness ==
    /\ lastop = "mutate"
    /\ undo_stack # <<>>
    /\ held # None /\ InList(held, DocAddrs(transition_data))
    /\ SnapView(Last(undo_stack), heap).transition_data
          # Serialize(transition_data, heap)

\* C33: when trans_update_field changes a field of a preset that exists, the
\* snapshot its set_transition pushes is the state before the handler ran,
\* and undo() right after it restores that state.
C33_FieldEditUndoable ==
    [][(/\ lastop' = "trans_update_field"
        /\ Keys(Presets(transition_data', "presets"))
              = Keys(Presets(transition_data, "presets")))
       => /\ SnapView(Last(undo_stack'), heap') = StoreView(Store)
          /\ StoreView(undo(Store')) = StoreView(Store)]_vars

\* C35: in every reachable state, set(name, value, push_undo=False) stores
\* value under name, writes the files and notifies once, and leaves both
\* stacks and their snapshots as they were; when the redo stack is not
\* empty, redo() right after it returns True and installs the top redo
\* snapshot in place of the collections with that edit.
C35_SetWithoutUndo ==
    \E st \in {Store} :
    \A c \in Collections, name \in SomeNames :
        \E r \in {SetNoUndo(st, c, name)} :
            /\ r.notified = 1
            /\ Get(Presets(r[c[1]], c[2]), name, None) = OneFresh(st).addr
            /\ r.heap[OneFresh(st).addr] = 1
            /\ r.undo_stack = st.undo_stack /\ r.redo_stack = st.redo_stack
            /\ \A a \in 1..Len(st.heap) : r.heap[a] = st.heap[a]
            /\ Written(r, r.transition_path, r.transition_data)
            /\ Written(r, r.shader_path, r.shader_data)
            /\ st.redo_stack # <<>>
                  => \E x \in {redo(r)} :
                        /\ x.ret = "True"
                        /\ StoreView(x) = SnapView(Last(st.redo_stack), st.heap)
                        /\ Len(x.redo_stack) = Len(st.redo_stack) - 1

C35_Witness ==
    /\ lastop = "set_transition(push_undo=False)" /\ notified = 1
    /\ redo_stack # <<>>
    /\ before.redo_count = Len(redo_stack)
    /\ before.undo_count = Len(undo_stack)
    /\ SnapView(Last(redo_stack), heap) # StoreView(Store)
    /\ disk[TFile] = JsonFile(Serialize(transition_data, heap))

-----------------------------------------------------------------------------
(* The two stacks together *)

\* C34: in every reachable state undo_count + redo_count <= MAX_UNDO_LEVELS
\* (so the redo stack never holds more than MAX_UNDO_LEVELS snapshots):
\* undo() and redo() each leave the sum of the two stack lengths as it was,
\* and an edit that pushes a snapshot leaves redo_count at 0.
C34_StackSum ==
    /\ undo_count(Store) + redo_count(Store) <= MAX_UNDO_LEVELS
    /\ redo_count(Store) <= MAX_UNDO_LEVELS
    /\ lastop \in {"undo", "redo"}
         => undo_count(Store) + redo_count(Store)
              = before.undo_count + before.redo_count
    /\ (lastop \in Edits /\ undo_count(Store) > before.undo_count)
         => redo_count(Store) = 0
    /\ \A r \in {undo(Store), redo(Store)} :
          undo_count(r) + redo_count(r) = undo_count(Store) + redo_count(Store)

C34_Witness ==
    /\ lastop = "undo" /\ ret = "True"
    /\ redo_count(Store) = MAX_UNDO_LEVELS
    /\ before.undo_count = 1 /\ before.redo_count = MAX_UNDO_LEVELS - 1

-----------------------------------------------------------------------------
(* Undo back to the loaded state *)

\* the store after each of n successive undo() / redo() calls, s first
RECURSIVE UndoTimes(_, _)
UndoTimes(s, n) ==
    IF n = 0 THEN <<s>>
    ELSE \* the calls before the n-th, then the n-th
         Then(UndoTimes(s, n - 1), LAMBDA r : Append(r, undo(r[Len(r)])))

RECURSIVE RedoTimes(_, _)
RedoTimes(s, n) ==
    IF n = 0 THEN <<s>>
    ELSE Then(RedoTimes(s, n - 1), LAMBDA r : Append(r, redo(r[Len(r)])))

\* C38: after load() and then n <= MAX_UNDO_LEVELS edits that ran, with no
\* undo or redo in between, n successive undo() calls all return True and
\* leave the collections equal to their state right after load(), the
\* (n+1)-th undo() returns False, and n successive redo() calls then bring
\* back the state after the n-th edit.
C38_UndoReachesLoaded ==
    (hist.pure /\ hist.undone = 0 /\ Len(hist.pres) <= MAX_UNDO_LEVELS) =>
        \E n \in {Len(hist.pres)} :
        \E loaded \in {IF n = 0 THEN StoreView(Store) ELSE hist.pres[1]} :
        \E u \in {UndoTimes(Store, n)} :
        \E stop \in {undo(u[n + 1])} :
        \E r \in {RedoTimes(stop, n)} :
           /\ \A i \in 2..(n + 1) : u[i].ret = "True"
           /\ StoreView(u[n + 1]) = loaded
           /\ stop.ret = "False"
           /\ StoreView(stop) = loaded
           /\ \A i \in 2..(n + 1) : r[i].ret = "True"
           /\ StoreView(r[n + 1]) = StoreView(Store)

C38_Witness ==
    /\ lastop = "undo" /\ ret = "False"
    /\ hist.pure
    /\ Len(hist.pres) = MAX_UNDO_LEVELS
    /\ hist.undone = MAX_UNDO_LEVELS
    /\ StoreView(Store) = hist.pres[1]
    /\ redo_count(Store) = MAX_UNDO_LEVELS
    /\ StoreView(RedoTimes(Store, MAX_UNDO_LEVELS)[MAX_UNDO_LEVELS + 1])
         # StoreView(Store)

-----------------------------------------------------------------------------
(* What a move keeps *)

\* C36: in every reachable state of a collection, with comment keys or the
\* empty string as a key too, a move(name, direction) that returns True
\* leaves the collection with the same set of keys, each holding the value
\* it held; only the order of the keys differs.
C36_MoveKeepsData ==
    \E st \in {Store} :
    \A c \in Collections, d \in Directions, name \in OrderNames :
        \E p \in {Presets(st[c[1]], c[2])} :
        \E r \in {Move(st, c, name, d)} :
        \E q \in {Presets(r[c[1]], c[2])} :
            r.ret = "True" =>
                /\ KeySet(q) = KeySet(p)
                /\ Len(q) = Len(p)
                /\ \A k \in KeySet(p) :
                      r.heap[Get(q, k, None)] = st.heap[Get(p, k, None)]

-----------------------------------------------------------------------------
(* The files after an autosave *)

\* the document a file holds; a file that does not exist counts as the
\* empty document
DiskDoc(file) == IF disk[file].kind = "json" THEN disk[file].doc ELSE <<>>

\* C37: with autosave on, both paths set and every write succeeding, after
\* each edit that ran and each undo() and redo() that returned True the
\* document in each collection's file equals the collection in memory, also
\* when undo() brings a collection back to the empty document it had after
\* loading a missing file.
C37_DiskFollowsMemory ==
    (/\ auto_save
     /\ transition_path = TFile /\ shader_path = SFile
     /\ \A f \in Files : writable[f]
     /\ \/ lastop \in Edits /\ notified > 0
        \/ lastop \in {"undo", "redo"} /\ ret = "True")
      => /\ DiskDoc(TFile) = Serialize(transition_data, heap)
         /\ DiskDoc(SFile) = Serialize(shader_data, heap)

====
